---- MODULE Spec2Model ----
(***************************************************************************)
(* The calorie estimator (app.py): the Streamlit session state machine of  *)
(* main(), the model client call_gemini_api() and the JSON extraction it   *)
(* performs on the model's raw text.                                       *)
(*                                                                         *)
(* A raw model text is a sequence of lexical units (tokens): JSON          *)
(* punctuation, string and number literals, the literal separator "---",   *)
(* whitespace and prose.  Python values are tagged records.                *)
(***************************************************************************)
EXTENDS Integers, Sequences, FiniteSets, TLC

(***************************************************************************)
(* Bounds of the model.                                                    *)
(***************************************************************************)
\* longest raw text enumerated by the extractor specification
MaxRawLen == 5

(***************************************************************************)
(* Python / JSON values.                                                   *)
(***************************************************************************)
PyNone == [t |-> "None"]
JNull == [t |-> "null"]
JNum(n) == [t |-> "num", n |-> n]
JStr(s) == [t |-> "str", s |-> s]
\* a str that is a slice of the raw text
JText(toks) == [t |-> "text", toks |-> toks]
JList(xs) == [t |-> "list", items |-> xs]
JObj(m) == [t |-> "obj", m |-> m]
EmptyDict == JObj(<< >>)

IsDict(v) == v.t = "obj"
IsList(v) == v.t = "list"
\* d[k] = v
DictSet(d, k, v) == JObj((k :> v) @@ d.m)
\* k in d
HasKey(d, k) == k \in DOMAIN d.m
\* d.get(k, default)
DictGet(d, k, default) == IF k \in DOMAIN d.m THEN d.m[k] ELSE default
\* a test that also rejects a payload holding the raw text only
TruthyAndStructured(v) ==
    IF v.t = "None" THEN FALSE
    ELSE IF v.t = "obj" THEN DOMAIN v.m # {} /\ DOMAIN v.m # {"text"}
    ELSE TRUE
\* a test that lets None pass
TruthyOfNone(v) == IF v.t = "obj" THEN DOMAIN v.m # {} ELSE TRUE
\* bool(v) for None and dict
Truthy(v) == IF v.t = "None" THEN FALSE ELSE IF v.t = "obj" THEN DOMAIN v.m # {} ELSE TRUE

(***************************************************************************)
(* Tokens of a raw text.                                                   *)
(***************************************************************************)
\* a JSON string literal with content s
S(s) == [s |-> s]
\* a JSON number literal
N(n) == [n |-> n]
\* any other lexical unit
P(c) == [c |-> c]
LB == P("{")
RB == P("}")
LK == P("[")
RK == P("]")
COLON == P(":")
COMMA == P(",")
NULL == P("null")
\* the separator of line 365
SEP == P("---")
SPACE == P(" ")
NL == P("\n")
\* prose and markdown fencing around the JSON
PROSE == P("Sure!")
FENCE == P("fence")
Whitespace == {SPACE, NL}
IsStrTok(tok) == DOMAIN tok = {"s"}
IsNumTok(tok) == DOMAIN tok = {"n"}

(***************************************************************************)
(* str.find, str.rfind, slicing, str.split(sep, 1), str.strip.             *)
(* Indices are 0-based as in Python; sequence position i holds index i-1. *)
(***************************************************************************)
\* s.find(tok): lowest index, -1 when absent
Find(s, tok) ==
    LET hits == {i \in 1..Len(s) : s[i] = tok}
    IN  IF hits = {} THEN -1
        ELSE (CHOOSE i \in hits : \A j \in hits : i <= j) - 1
\* s.rfind(tok): highest index, -1 when absent
RFind(s, tok) ==
    LET hits == {i \in 1..Len(s) : s[i] = tok}
    IN  IF hits = {} THEN -1
        ELSE (CHOOSE i \in hits : \A j \in hits : i >= j) - 1
\* a slice bound as Python clamps it
ClampIndex(i, n) ==
    IF i < 0 THEN (IF i + n < 0 THEN 0 ELSE i + n)
    ELSE IF i > n THEN n ELSE i
\* s[a:b]
PySlice(s, a, b) ==
    LET lo == ClampIndex(a, Len(s))
        hi == ClampIndex(b, Len(s))
    IN  IF lo >= hi THEN << >> ELSE SubSeq(s, lo + 1, hi)
\* s.split('---', 1)
SplitOnce(s) ==
    LET k == Find(s, SEP)
    IN  IF k = -1 THEN << s >>
        ELSE << SubSeq(s, 1, k), SubSeq(s, k + 2, Len(s)) >>
\* s.strip()
Strip(s) ==
    LET keep == {i \in 1..Len(s) : s[i] \notin Whitespace}
    IN  IF keep = {} THEN << >>
        ELSE SubSeq(s, CHOOSE i \in keep : \A j \in keep : i <= j,
                       CHOOSE i \in keep : \A j \in keep : i >= j)

(***************************************************************************)
(* json.loads on a token sequence: a recursive-descent parser of objects,  *)
(* arrays, strings, numbers and null.  A result is [ok, val, next]: next   *)
(* is the position after the parsed value.  ok = FALSE is JSONDecodeError. *)
(***************************************************************************)
ParseFail == [ok |-> FALSE, val |-> JNull, next |-> 0]
ParseOk(v, n) == [ok |-> TRUE, val |-> v, next |-> n]

RECURSIVE SkipWs(_, _)
SkipWs(s, i) ==
    IF i <= Len(s) /\ s[i] \in Whitespace THEN SkipWs(s, i + 1) ELSE i

RECURSIVE ParseValue(_, _)
RECURSIVE ParseMembers(_, _, _)
RECURSIVE ParseElems(_, _, _)

\* the value starting at position i (whitespace already skipped)
ParseValue(s, i) ==
    IF i > Len(s) THEN ParseFail
    ELSE IF IsStrTok(s[i]) THEN ParseOk(JStr(s[i].s), i + 1)
    ELSE IF IsNumTok(s[i]) THEN ParseOk(JNum(s[i].n), i + 1)
    ELSE IF s[i] = NULL THEN ParseOk(JNull, i + 1)
    ELSE IF s[i] = LB THEN
        LET j == SkipWs(s, i + 1)
        IN  IF j <= Len(s) /\ s[j] = RB THEN ParseOk(EmptyDict, j + 1)
            ELSE ParseMembers(s, j, << >>)
    ELSE IF s[i] = LK THEN
        LET j == SkipWs(s, i + 1)
        IN  IF j <= Len(s) /\ s[j] = RK THEN ParseOk(JList(<< >>), j + 1)
            ELSE ParseElems(s, j, << >>)
    ELSE ParseFail

\* the members of an object from position i (a key is expected), m so far
ParseMembers(s, i, m) ==
    IF i > Len(s) \/ ~IsStrTok(s[i]) THEN ParseFail
    ELSE
        LET key == s[i].s
            c == SkipWs(s, i + 1)
        IN  IF c > Len(s) \/ s[c] # COLON THEN ParseFail
            ELSE
                LET r == ParseValue(s, SkipWs(s, c + 1))
                IN  IF ~r.ok THEN ParseFail
                    ELSE
                        LET e == SkipWs(s, r.next)
                            \* a repeated key keeps the last value
                            m2 == (key :> r.val) @@ m
                        IN  IF e > Len(s) THEN ParseFail
                            ELSE IF s[e] = RB THEN ParseOk(JObj(m2), e + 1)
                            ELSE IF s[e] = COMMA
                                 THEN ParseMembers(s, SkipWs(s, e + 1), m2)
                            ELSE ParseFail

\* the elements of an array from position i, xs so far
ParseElems(s, i, xs) ==
    LET r == ParseValue(s, i)
    IN  IF ~r.ok THEN ParseFail
        ELSE
            LET e == SkipWs(s, r.next)
                xs2 == Append(xs, r.val)
            IN  IF e > Len(s) THEN ParseFail
                ELSE IF s[e] = RK THEN ParseOk(JList(xs2), e + 1)
                ELSE IF s[e] = COMMA THEN ParseElems(s, SkipWs(s, e + 1), xs2)
                ELSE ParseFail

\* json.loads(s): one value, nothing but whitespace around it
JsonLoads(s) ==
    LET r == ParseValue(s, SkipWs(s, 1))
    IN  IF r.ok /\ SkipWs(s, r.next) > Len(s) THEN r ELSE ParseFail

(***************************************************************************)
(* The extraction of call_gemini_api (lines 364-384).                      *)
(* A result is [raised, val]: raised = TRUE is an exception that neither   *)
(* except clause of the extraction catches.                                *)
(***************************************************************************)
NoSummary == JStr("No summary provided.")
Returned(v) == [raised |-> FALSE, val |-> v]
Raised == [raised |-> TRUE, val |-> PyNone]

\* a slice that ends at the first closing brace
BraceSliceToFirstClose(s) == PySlice(s, Find(s, LB), Find(s, RB) + 1)
\* json_str[json_str.find('{') : json_str.rfind('}') + 1]
BraceSlice(s) == PySlice(s, Find(s, LB), RFind(s, RB) + 1)

\* the first pass: the segment before the first separator
FirstPass(response_text) == JsonLoads(BraceSlice(SplitOnce(response_text)[1]))

\* a summary that keeps the whitespace around it
SummaryUntrimmed(response_text) ==
    LET parts == SplitOnce(response_text)
    IN  IF Len(parts) > 1 THEN JText(parts[2]) ELSE NoSummary
\* the summary of the first pass
SummaryOf(response_text) ==
    LET parts == SplitOnce(response_text)
    IN  IF Len(parts) > 1 THEN JText(Strip(parts[2])) ELSE NoSummary

\* a second pass that slices the segment before the separator again
SecondPassOfSegment(response_text) == JsonLoads(BraceSlice(SplitOnce(response_text)[1]))
\* the second pass: the whole raw text
SecondPass(response_text) == JsonLoads(BraceSlice(response_text))

\* a fallback that keeps the segment before the separator only
FallbackOfSegment(response_text) == JObj("text" :> JText(SplitOnce(response_text)[1]))
\* {"text": response_text}
Fallback(response_text) == JObj("text" :> JText(response_text))

Extract(response_text) ==
    LET first == FirstPass(response_text)
        second == SecondPass(response_text)
    IN  IF first.ok
        THEN \* parsed_json['summary_text'] = summary_text: TypeError unless a dict
             IF IsDict(first.val)
             THEN Returned(DictSet(first.val, "summary_text", SummaryOf(response_text)))
             ELSE Raised
        ELSE IF second.ok THEN Returned(second.val)
        ELSE Returned(Fallback(response_text))

(***************************************************************************)
(* The state.  The first five variables are the keys of st.session_state   *)
(* (NoKey / Absent: the key is not in the session).                        *)
(***************************************************************************)
VARIABLES
    analysis_stage,       \* st.session_state.analysis_stage
    uploaded_image_data,  \* st.session_state.uploaded_image_data
    api_response,         \* st.session_state.api_response
    user_answers,         \* st.session_state.user_answers
    final_breakdown,      \* st.session_state.final_breakdown
    GEMINI_API_KEY,       \* the credential of lines 15-19
    rerun,                \* st.rerun() was called: the script runs again at once
    page,                 \* what the last script run rendered
    final_prompt,         \* the stage-2 prompt the last run built
    posted,               \* the last run issued requests.post
    full_response_json,   \* the response body the last model call received
    response_text,        \* the raw text the last model call received
    response_json,        \* what the last call_gemini_api returned
    last                  \* the last script run: its trigger and the stage it started in

session == << analysis_stage, uploaded_image_data, api_response, user_answers,
              final_breakdown >>
vars == << analysis_stage, uploaded_image_data, api_response, user_answers,
           final_breakdown, GEMINI_API_KEY, rerun, page, final_prompt, posted,
           full_response_json, response_text, response_json, last >>

NoKey == "<no key>"
Absent == [t |-> "absent"]
Bytes(b) == [t |-> "bytes", b |-> b]
Answers(m) == [t |-> "answers", m |-> m]
Stages == {"upload", "analyzing", "review_and_answer", "calculating_final", "results"}

(***************************************************************************)
(* Inputs: uploaded files, credentials, typed texts, endpoint behaviours.  *)
(***************************************************************************)
Images == {Bytes("meal1.jpg"), Bytes("meal2.png")}
Keys == {"", "api-key"}
FreeTexts == {"", "200g chicken"}

\* a literal JSON object written as tokens: { "k1": v1, "k2": v2 }
Member(k, v) == << S(k), COLON >> \o v
Obj1(a) == << LB >> \o a \o << RB >>
Obj2(a, b) == << LB >> \o a \o << COMMA >> \o b \o << RB >>
Obj3(a, b, c) == << LB >> \o a \o << COMMA >> \o b \o << COMMA >> \o c \o << RB >>
Arr0 == << LK, RK >>
Arr1(a) == << LK >> \o a \o << RK >>
Arr2(a, b) == << LK >> \o a \o << COMMA >> \o b \o << RK >>
Fenced(j) == << PROSE, SPACE, FENCE, NL >> \o j \o << NL, FENCE >>

\* the follow-up option of line 223
OtherOption == "Other (please specify)"

\* stage-1 texts
TextApple ==
    Fenced(Obj2(Member("estimations",
                       Arr1(Obj2(Member("item", << S("Apple") >>),
                                 Member("amount", << S("1 medium") >>)))),
                Member("questions", Arr0)))
TextBurger ==
    Obj2(Member("estimations", Arr1(Obj1(Member("item", << S("Beef Patty") >>)))),
         Member("questions",
                Arr2(Obj3(Member("id", << S("q1") >>),
                          Member("text", << S("Is that accurate?") >>),
                          Member("options", Arr2(<< S("Yes") >>, << S(OtherOption) >>))),
                     Obj2(Member("id", << S("q2") >>),
                          Member("text", << S("Which oil?") >>)))))
TextMissingId ==
    Obj2(Member("estimations", Arr1(Obj1(Member("item", << S("Rice") >>)))),
         Member("questions",
                Arr2(Obj1(Member("text", << S("Homemade?") >>)),
                     Obj2(Member("id", << S("q1") >>),
                          Member("text", << S("Which oil?") >>)))))
TextEmptyId ==
    Obj2(Member("estimations", Arr0),
         Member("questions",
                Arr1(Obj2(Member("id", << S("") >>),
                          Member("text", << S("Which oil?") >>)))))
\* the question of the prompt's example (lines 97-103), with its follow_up_on
TextSmoothie ==
    Obj2(Member("estimations", Arr1(Obj1(Member("item", << S("Smoothie") >>)))),
         Member("questions",
                Arr1(Obj3(Member("id", << S("q1") >>),
                          Member("options", Arr2(<< S("Yes, I can list them") >>,
                                                 << S("No, please estimate visually") >>)),
                          Member("follow_up_on", << S("Yes, I can list them") >>)))))
TextNothing == Fenced(Obj2(Member("estimations", Arr0), Member("questions", Arr0)))
TextProse == << PROSE, SPACE, P("I cannot see any food.") >>

\* stage-2 texts
LineRice ==
    Obj3(Member("item", << S("Rice") >>), Member("calories", << N(200) >>),
         Member("fat_grams", << N(1) >>))
LineRaita ==
    Obj2(Member("item", << S("Raita") >>), Member("calories", << N(30) >>))
TextRice ==
    Obj1(Member("breakdown", Arr2(LineRice, LineRaita)))
        \o << NL, SEP, NL, P("Rice is carb-heavy."), NL >>
TextBreakdownNumber == Obj1(Member("breakdown", << N(5) >>)) \o << SEP, P("Light.") >>
TextSeparatorFirst ==
    << PROSE, SEP, NL >> \o Obj1(Member("breakdown", Arr1(LineRaita)))
TextEmptyObject == << PROSE, SEP, LB, RB >>

\* a payload that brings totals of its own
TextTotalsGiven ==
    Obj2(Member("breakdown", Arr1(LineRaita)), Member("total_calories", << N(999) >>))
        \o << SEP, P("Light.") >>
\* breakdown lists with one malformed line
LineCaloriesString ==
    Obj2(Member("item", << S("Raita") >>), Member("calories", << S("30 kcal") >>))
LineFatNull ==
    Obj3(Member("item", << S("Raita") >>), Member("calories", << N(30) >>),
         Member("fat_grams", << NULL >>))
TextCaloriesString == Obj1(Member("breakdown", Arr2(LineRice, LineCaloriesString)))
TextFatNull == Obj1(Member("breakdown", Arr2(LineRice, LineFatNull)))
TextLineNotObject == Obj1(Member("breakdown", Arr2(LineRice, << S("Raita: 30 kcal") >>)))

RawTexts == {TextApple, TextBurger, TextMissingId, TextEmptyId, TextNothing, TextProse,
             TextRice, TextBreakdownNumber, TextSeparatorFirst, TextEmptyObject,
             TextTotalsGiven, TextCaloriesString, TextFatNull, TextLineNotObject,
             TextSmoothie}

\* full_response_json with the generated text at the path of line 362
BodyWithText(raw) ==
    JObj("candidates" :> JList(<< JObj("content" :>
        JObj("parts" :> JList(<< JObj("text" :> JText(raw)) >>))) >>))
\* bodies without the text at that path: a key is missing, a list is empty,
\* a level has another type
BodyNoCandidates == JObj("promptFeedback" :> JStr("SAFETY"))
BodyEmptyCandidates == JObj("candidates" :> JList(<< >>))
BodyNoParts == JObj("candidates" :> JList(<< JObj("content" :> EmptyDict) >>))
BodyCandidatesNull == JObj("candidates" :> JNull)
BodyPartsString ==
    JObj("candidates" :> JList(<< JObj("content" :> JObj("parts" :> JStr("text"))) >>))
BodyTextNull ==
    JObj("candidates" :> JList(<< JObj("content" :>
        JObj("parts" :> JList(<< JObj("text" :> JNull) >>))) >>))
BodyIsList == JList(<< >>)
DeviantBodies == {BodyNoCandidates, BodyEmptyCandidates, BodyNoParts, BodyCandidatesNull,
                  BodyPartsString, BodyTextNull, BodyIsList}

\* what the endpoint does with a request: the request fails, or a body arrives
Outcomes ==
    {[kind |-> "RequestException", body |-> Absent]}
        \cup {[kind |-> "body", body |-> BodyWithText(r)] : r \in RawTexts}
        \cup {[kind |-> "body", body |-> b] : b \in DeviantBodies}

(***************************************************************************)
(* Subscripting as line 362 does it.  A result is [exc, val]: exc is the   *)
(* exception raised, "none" when the subscript yields val.                 *)
(***************************************************************************)
Key(k) == [key |-> k]
Index(i) == [index |-> i]
\* ['candidates'][0]['content']['parts'][0]['text']
TextPath ==
    << Key("candidates"), Index(0), Key("content"), Key("parts"), Index(0), Key("text") >>
Found(v) == [exc |-> "none", val |-> v]
Throws(e) == [exc |-> e, val |-> PyNone]
\* v[step]; a character of a str is the str itself as one piece
Subscript(v, step) ==
    IF v.t = "obj" THEN
        IF DOMAIN step = {"key"} /\ step.key \in DOMAIN v.m
        THEN Found(v.m[step.key]) ELSE Throws("KeyError")
    ELSE IF v.t = "list" THEN
        IF DOMAIN step # {"index"} THEN Throws("TypeError")
        ELSE IF step.index < Len(v.items) THEN Found(v.items[step.index + 1])
        ELSE Throws("IndexError")
    ELSE IF v.t = "str" THEN
        IF DOMAIN step # {"index"} THEN Throws("TypeError")
        ELSE IF v.s # "" THEN Found(v) ELSE Throws("IndexError")
    ELSE Throws("TypeError")
RECURSIVE Walk(_, _)
Walk(v, path) ==
    IF path = << >> THEN Found(v)
    ELSE LET r == Subscript(v, Head(path))
         IN  IF r.exc # "none" THEN r ELSE Walk(r.val, Tail(path))

(***************************************************************************)
(* call_gemini_api (lines 346-393).  A result is                           *)
(*   [ret, raised, posted, errors, text, body]:                            *)
(* the value returned, whether an exception left the function uncaught,    *)
(* whether requests.post was issued, the st.error messages, the raw text,  *)
(* the response body.                                                      *)
(***************************************************************************)
ErrNoKey == "Gemini API Key is not configured."
ErrApi == "API Error"
ErrShape == "Error: Could not parse the API response."
ErrAnalyze == "The AI could not analyze the image. Please try another one."
ErrDeadEnd == "The AI was unable to analyze this image."
ErrFinal == "The AI could not generate a final breakdown. Please try again."

CallResult(ret, raised, sent, errors, text, body) ==
    [ret |-> ret, raised |-> raised, posted |-> sent, errors |-> errors, text |-> text,
     body |-> body]
NoCall == CallResult(PyNone, FALSE, FALSE, {}, << >>, Absent)

\* lines 358-393: the request has been posted
PostAndExtract(outcome) ==
    IF outcome.kind = "RequestException"
    THEN CallResult(PyNone, FALSE, TRUE, {ErrApi}, << >>, Absent)
    ELSE LET at == Walk(outcome.body, TextPath)
         IN  IF at.exc \in {"KeyError", "IndexError"}
             THEN CallResult(PyNone, FALSE, TRUE, {ErrShape}, << >>, outcome.body)
             \* TypeError: no except clause catches it
             ELSE IF at.exc # "none"
             THEN CallResult(PyNone, TRUE, TRUE, {}, << >>, outcome.body)
             \* response_text.split: AttributeError unless the value is a str
             ELSE IF at.val.t # "text"
             THEN CallResult(PyNone, TRUE, TRUE, {}, << >>, outcome.body)
             ELSE LET r == Extract(at.val.toks)
                  IN  CallResult(r.val, r.raised, TRUE, {}, at.val.toks, outcome.body)

\* a client that posts without looking at the credential
call_without_key_check(key, outcome) == PostAndExtract(outcome)

call_gemini_api(key, outcome) ==
    IF key = "" THEN CallResult(PyNone, FALSE, FALSE, {ErrNoKey}, << >>, Absent)
    ELSE PostAndExtract(outcome)

(***************************************************************************)
(* The session after lines 47-52 of a run.                                 *)
(***************************************************************************)
Stage0 == IF analysis_stage = NoKey THEN "upload" ELSE analysis_stage
Image0 == IF uploaded_image_data = Absent THEN PyNone ELSE uploaded_image_data
Response0 == IF api_response = Absent THEN EmptyDict ELSE api_response

(***************************************************************************)
(* What a run renders.                                                     *)
(***************************************************************************)
NoTotals == [t |-> "absent"]
Totals(c, p, cb, f) == [t |-> "totals", calories |-> c, protein |-> p, carbs |-> cb, fat |-> f]
Page(widgets, errors, questions, exception, totals) ==
    [widgets |-> widgets, errors |-> errors, questions |-> questions,
     exception |-> exception, totals |-> totals]
\* a run that st.rerun() cut short
BlankPage == Page({}, {}, << >>, FALSE, NoTotals)

\* the keys of a dict as a list of str
RECURSIVE KeyList(_)
KeyList(ks) ==
    IF ks = {} THEN << >>
    ELSE LET k == CHOOSE x \in ks : TRUE
         IN  << JStr(k) >> \o KeyList(ks \ {k})
\* for x in v: the items (of a list), the keys (of a dict), the characters (of a
\* str, here the str as one piece when it is not empty), or TypeError
Iterate(v) ==
    IF v.t = "list" THEN [raised |-> FALSE, items |-> v.items]
    ELSE IF v.t = "obj" THEN [raised |-> FALSE, items |-> KeyList(DOMAIN v.m)]
    ELSE IF v.t = "str" THEN
        [raised |-> FALSE, items |-> IF v.s = "" THEN << >> ELSE << JStr(v.s) >>]
    ELSE IF v.t = "text" THEN
        [raised |-> FALSE, items |-> [i \in 1..Len(v.toks) |-> JText(<< v.toks[i] >>)]]
    ELSE [raised |-> TRUE, items |-> << >>]

\* lines 177-185
ListOrEmpty(v) == IF IsList(v) THEN v.items ELSE << >>
IsValidQuestion(q) == IsDict(q) /\ HasKey(q, "id")
estimations_of(resp) == ListOrEmpty(DictGet(resp, "estimations", JList(<< >>)))
questions_of(resp) == ListOrEmpty(DictGet(resp, "questions", JList(<< >>)))
valid_questions(resp) == SelectSeq(questions_of(resp), IsValidQuestion)
\* line 187
DeadEnd(resp) == estimations_of(resp) = << >> /\ valid_questions(resp) = << >>

ReviewPage(resp) ==
    IF DeadEnd(resp) THEN Page({"start_over"}, {ErrDeadEnd}, << >>, FALSE, NoTotals)
    ELSE IF valid_questions(resp) = << >>
         THEN Page({"calculate_now"}, {}, << >>, FALSE, NoTotals)
    ELSE Page({"submit"}, {}, valid_questions(resp), FALSE, NoTotals)

\* a sum that stops after the first line
SumFieldOfHead(items, f) ==
    IF items = << >> THEN 0 ELSE DictGet(Head(items), f, JNum(0)).n
\* lines 309-321
NutritionFields == {"calories", "protein_grams", "carbs_grams", "fat_grams"}
LineOk(item) ==
    IsDict(item) /\ \A f \in NutritionFields : DictGet(item, f, JNum(0)).t = "num"
RECURSIVE SumField(_, _)
SumField(items, f) ==
    IF items = << >> THEN 0
    ELSE DictGet(Head(items), f, JNum(0)).n + SumField(Tail(items), f)

\* lines 299-343
ResultsPage(fb) ==
    LET breakdown_data == IF fb = Absent THEN EmptyDict ELSE fb
        it == Iterate(DictGet(breakdown_data, "breakdown", JList(<< >>)))
    IN  IF it.raised \/ \E i \in 1..Len(it.items) : ~LineOk(it.items[i])
        THEN Page({}, {}, << >>, TRUE, NoTotals)
        ELSE Page({"start_over"}, {}, << >>, FALSE,
                  Totals(SumField(it.items, "calories"), SumField(it.items, "protein_grams"),
                         SumField(it.items, "carbs_grams"), SumField(it.items, "fat_grams")))

\* a run in which no button is pressed, in a stage other than calculating_final
RenderPage(stage, resp, fb) ==
    IF stage = "upload" THEN Page({"file_uploader"}, {}, << >>, FALSE, NoTotals)
    ELSE IF stage = "analyzing" THEN Page({"analyze"}, {}, << >>, FALSE, NoTotals)
    ELSE IF stage = "review_and_answer" THEN ReviewPage(resp)
    ELSE ResultsPage(fb)

(***************************************************************************)
(* The answers of lines 218-230.                                           *)
(***************************************************************************)
\* "please specify" in selected_option.lower()
ContainsPleaseSpecify(opt) == opt.t = "str" /\ opt.s \in {OtherOption}
\* f"{selected_option}: {specification_text}"
FollowUp(opt, text) == [t |-> "fstring", parts |-> << opt, JStr(": "), JStr(text) >>]
HasOptions(q) ==
    /\ HasKey(q, "options")
    /\ IsList(q.m["options"])
    /\ Len(q.m["options"].items) > 0
\* the values the widgets of one question can yield
AnswerChoices(q) ==
    IF HasOptions(q)
    THEN UNION {IF ContainsPleaseSpecify(q.m["options"].items[i])
                THEN {FollowUp(q.m["options"].items[i], x) : x \in FreeTexts}
                ELSE {q.m["options"].items[i]} : i \in 1..Len(q.m["options"].items)}
    ELSE {JStr(x) : x \in FreeTexts}
\* user_answers[q['id']] = ... for each valid question in turn
RECURSIVE CollectAnswers(_, _, _)
CollectAnswers(valid, choice, m) ==
    IF valid = << >> THEN m
    ELSE CollectAnswers(Tail(valid), Tail(choice),
                        (Head(valid).m["id"] :> Head(choice)) @@ m)
\* every choice of one widget value per valid question
ChoicesFor(valid) ==
    {c \in [1..Len(valid) -> UNION {AnswerChoices(valid[i]) : i \in 1..Len(valid)}] :
        \A i \in 1..Len(valid) : c[i] \in AnswerChoices(valid[i])}

(***************************************************************************)
(* The stage-2 prompt of lines 240-248.                                    *)
(***************************************************************************)
NoPrompt == [t |-> "none"]
Stage1Prompt == [t |-> "stage1"]
FinalPrompt(e, a) == [t |-> "final", estimations |-> e, answers |-> a]
Dicts(items) == SelectSeq(items, IsDict)
\* st.session_state.user_answers.get(key, 'No answer')
AnswerGet(answers, key) ==
    IF key \in DOMAIN answers.m THEN answers.m[key] ELSE JStr("No answer")
estimations_str(items) ==
    [i \in 1..Len(Dicts(items)) |->
        << DictGet(Dicts(items)[i], "item", JStr("N/A")),
           DictGet(Dicts(items)[i], "amount", JStr("N/A")) >>]
\* the questions folded into the prompt
PromptQuestions(items) == Dicts(items)
answers_str(items, answers) ==
    [i \in 1..Len(PromptQuestions(items)) |->
        << DictGet(PromptQuestions(items)[i], "text", JStr("a question")),
           AnswerGet(answers, DictGet(PromptQuestions(items)[i], "id", PyNone)) >>]

(***************************************************************************)
(* The script runs of main().  Every run starts with lines 47-52 and then  *)
(* executes the block of the current stage; st.rerun() ends the run and    *)
(* starts the next one at once.                                            *)
(***************************************************************************)
Update(stage, image, resp, answers, fb, again, pg, pr, call, key, op) ==
    /\ analysis_stage' = stage
    /\ uploaded_image_data' = image
    /\ api_response' = resp
    /\ user_answers' = answers
    /\ final_breakdown' = fb
    /\ GEMINI_API_KEY' = key
    /\ rerun' = again
    /\ page' = pg
    /\ final_prompt' = pr
    /\ posted' = call.posted
    /\ full_response_json' = call.body
    /\ response_text' = call.text
    /\ response_json' = call.ret
    /\ last' = [op |-> op, from |-> analysis_stage]

\* the run ends in an uncaught exception: the session is as the run found it
Crash(widgets, pr, call, key, op) ==
    Update(Stage0, Image0, Response0, user_answers, final_breakdown, FALSE,
           Page(widgets, call.errors, << >>, TRUE, NoTotals), pr, call, key, op)

\* lines 54-63: the uploader yields a file
UploadFile ==
    \E f \in Images :
        /\ ~rerun
        /\ Stage0 = "upload"
        /\ "file_uploader" \in page.widgets
        /\ Update("analyzing", f, Response0, user_answers, final_breakdown, TRUE,
                  BlankPage, NoPrompt, NoCall, GEMINI_API_KEY, "upload_file")

\* lines 65-174: the Analyze Food button is pressed
ClickAnalyze ==
    \E o \in Outcomes :
        /\ ~rerun
        /\ Stage0 = "analyzing"
        /\ "analyze" \in page.widgets
        /\ \E c \in {call_gemini_api(GEMINI_API_KEY, o)} :
               IF Image0.t # "bytes"
               THEN Crash({"analyze"}, NoPrompt, NoCall, GEMINI_API_KEY, "analyze")
               ELSE IF c.raised
               THEN Crash({"analyze"}, Stage1Prompt, c, GEMINI_API_KEY, "analyze")
               ELSE IF Truthy(c.ret)
               THEN Update("review_and_answer", Image0, c.ret, user_answers,
                           final_breakdown, TRUE, BlankPage, Stage1Prompt, c,
                           GEMINI_API_KEY, "analyze")
               ELSE Update(Stage0, Image0, Response0, user_answers, final_breakdown,
                           FALSE,
                           Page({"analyze"}, c.errors \cup {ErrAnalyze}, << >>, FALSE,
                                NoTotals),
                           Stage1Prompt, c, GEMINI_API_KEY, "analyze")

\* a button that skips the stage-2 call
ClickCalculateNowSkipsCall ==
    /\ ~rerun
    /\ Stage0 = "review_and_answer"
    /\ "calculate_now" \in page.widgets
    /\ Update("results", Image0, Response0, Answers(<< >>), final_breakdown,
              TRUE, BlankPage, NoPrompt, NoCall, GEMINI_API_KEY, "calculate_now")

\* a button that leaves the answers as they are
ClickCalculateNowWithoutAnswers ==
    /\ ~rerun
    /\ Stage0 = "review_and_answer"
    /\ "calculate_now" \in page.widgets
    /\ Update("calculating_final", Image0, Response0, user_answers, final_breakdown,
              TRUE, BlankPage, NoPrompt, NoCall, GEMINI_API_KEY, "calculate_now")

\* lines 210-215: Calculate Final Estimate Now is pressed
ClickCalculateNow ==
    /\ ~rerun
    /\ Stage0 = "review_and_answer"
    /\ "calculate_now" \in page.widgets
    /\ Update("calculating_final", Image0, Response0, Answers(<< >>), final_breakdown,
              TRUE, BlankPage, NoPrompt, NoCall, GEMINI_API_KEY, "calculate_now")

\* a submit that empties the stored stage-1 payload
ClickSubmitClearsPayload ==
    \E choice \in ChoicesFor(valid_questions(Response0)) :
        /\ ~rerun
        /\ Stage0 = "review_and_answer"
        /\ "submit" \in page.widgets
        /\ Update("calculating_final", Image0, EmptyDict,
                  Answers(CollectAnswers(valid_questions(Response0), choice, << >>)),
                  final_breakdown, TRUE, BlankPage, NoPrompt, NoCall, GEMINI_API_KEY,
                  "submit")

\* lines 216-234: Submit Answers and Get Estimate is pressed
ClickSubmit ==
    \E choice \in ChoicesFor(valid_questions(Response0)) :
        /\ ~rerun
        /\ Stage0 = "review_and_answer"
        /\ "submit" \in page.widgets
        /\ Update("calculating_final", Image0, Response0,
                  Answers(CollectAnswers(valid_questions(Response0), choice, << >>)),
                  final_breakdown, TRUE, BlankPage, NoPrompt, NoCall, GEMINI_API_KEY,
                  "submit")

\* a start over that deletes only the keys lines 47-52 initialise
ClickStartOverKeepsAnswers ==
    /\ ~rerun
    /\ "start_over" \in page.widgets
    /\ Update(NoKey, Absent, Absent, user_answers, final_breakdown, TRUE, BlankPage,
              NoPrompt, NoCall, GEMINI_API_KEY, "start_over")

\* lines 191-194 and 340-343: Start Over with a New Image is pressed
ClickStartOver ==
    /\ ~rerun
    /\ "start_over" \in page.widgets
    /\ Update(NoKey, Absent, Absent, Absent, Absent, TRUE, BlankPage, NoPrompt, NoCall,
              GEMINI_API_KEY, "start_over")

\* a run in which no button is pressed, outside calculating_final
RenderRun(key, op) ==
    /\ Stage0 # "calculating_final"
    /\ Update(Stage0, Image0, Response0, user_answers, final_breakdown, FALSE,
              RenderPage(Stage0, Response0, final_breakdown), NoPrompt, NoCall, key, op)

\* lines 236-297: any run that finds the stage calculating_final
CalculatingFinalRun(key, op) ==
    \E o \in Outcomes :
        /\ Stage0 = "calculating_final"
        /\ \E c \in {call_gemini_api(key, o)} :
           LET est == Iterate(DictGet(Response0, "estimations", JList(<< >>)))
               qs == Iterate(DictGet(Response0, "questions", JList(<< >>)))
               pr == FinalPrompt(estimations_str(est.items),
                                 answers_str(qs.items, user_answers))
           IN  IF Image0.t # "bytes" \/ est.raised \/ qs.raised \/ user_answers = Absent
               THEN Crash({}, NoPrompt, NoCall, key, op)
               ELSE IF c.raised THEN Crash({}, pr, c, key, op)
               ELSE IF Truthy(c.ret) /\ HasKey(c.ret, "breakdown")
               THEN Update("results", Image0, Response0, user_answers, c.ret, TRUE,
                           BlankPage, pr, c, key, op)
               ELSE Update("review_and_answer", Image0, Response0, user_answers,
                           final_breakdown, FALSE,
                           Page({}, c.errors \cup {ErrFinal}, << >>, FALSE, NoTotals),
                           pr, c, key, op)

\* the script runs again: st.rerun(), or the user has the page rerun
Rerun == RenderRun(GEMINI_API_KEY, "rerun")
CalculatingFinal == CalculatingFinalRun(GEMINI_API_KEY, "rerun")
\* line 19: the user types a credential, which reruns the script
EnterKey ==
    \E k \in Keys \ {GEMINI_API_KEY} :
        /\ ~rerun
        /\ RenderRun(k, "enter_key")
EnterKeyCalculating ==
    \E k \in Keys \ {GEMINI_API_KEY} :
        /\ ~rerun
        /\ CalculatingFinalRun(k, "enter_key")

FreshSession ==
    /\ analysis_stage = "upload"
    /\ uploaded_image_data = PyNone
    /\ api_response = EmptyDict
    /\ user_answers = Absent
    /\ final_breakdown = Absent

Init ==
    /\ FreshSession
    /\ GEMINI_API_KEY \in Keys
    /\ rerun = FALSE
    /\ page = RenderPage("upload", EmptyDict, Absent)
    /\ final_prompt = NoPrompt
    /\ posted = FALSE
    /\ full_response_json = Absent
    /\ response_text = << >>
    /\ response_json = PyNone
    /\ last = [op |-> "start", from |-> NoKey]

Next ==
    \/ UploadFile
    \/ ClickAnalyze
    \/ ClickCalculateNow
    \/ ClickSubmit
    \/ ClickStartOver
    \/ Rerun
    \/ CalculatingFinal
    \/ EnterKey
    \/ EnterKeyCalculating

Spec == Init /\ [][Next]_vars

(***************************************************************************)
(* The extraction alone, on every raw text of at most MaxRawLen tokens     *)
(* over ExtractAlphabet and on the texts of RawTexts.                      *)
(***************************************************************************)
ExtractAlphabet == {LB, RB, SEP, SPACE, PROSE, S("a"), COLON}
BoundedTexts == UNION {[1..n -> ExtractAlphabet] : n \in 0..MaxRawLen}

InitExtract ==
    /\ FreshSession
    /\ GEMINI_API_KEY = "api-key"
    /\ rerun = FALSE
    /\ page = RenderPage("upload", EmptyDict, Absent)
    /\ final_prompt = NoPrompt
    /\ posted = FALSE
    /\ full_response_json = Absent
    /\ response_text \in BoundedTexts \cup RawTexts
    /\ response_json = PyNone
    /\ last = [op |-> "start", from |-> NoKey]

\* lines 364-384 applied to response_text
ExtractStep ==
    /\ last.op = "start"
    /\ response_json' = Extract(response_text).val
    /\ page' = [page EXCEPT !.exception = Extract(response_text).raised]
    /\ last' = [op |-> "extract", from |-> NoKey]
    /\ UNCHANGED << session, GEMINI_API_KEY, rerun, final_prompt, posted,
                    full_response_json, response_text >>

NextExtract == ExtractStep

SpecExtract == InitExtract /\ [][NextExtract]_vars

(***************************************************************************)
(* Notions the properties use.                                             *)
(***************************************************************************)
\* the payload holds a breakdown that is a list
ValidBreakdown(v) == IsDict(v) /\ HasKey(v, "breakdown") /\ IsList(v.m["breakdown"])
\* the payload is the fallback form: only the raw text, under the key text
IsFallbackPayload(v) == IsDict(v) /\ DOMAIN v.m = {"text"} /\ v.m["text"].t = "text"
\* the question has an id that is not empty
HasNonEmptyId(q) == IsDict(q) /\ HasKey(q, "id") /\ q.m["id"] # JStr("")
\* the last run was a model call of stage 1 / of stage 2
AnalyzeCalled == last.op = "analyze" /\ final_prompt = Stage1Prompt
FinalCalled == last.from = "calculating_final" /\ final_prompt.t = "final"
ForwardEdges ==
    {<< "upload", "analyzing" >>, << "analyzing", "review_and_answer" >>,
     << "review_and_answer", "calculating_final" >>, << "calculating_final", "results" >>}

C2_FallbackDoesNotAdvance ==
    (AnalyzeCalled /\ IsFallbackPayload(response_json)) =>
        /\ analysis_stage = "analyzing"
        /\ page.errors # {}
        /\ "analyze" \in page.widgets

(***************************************************************************)
(* C2 amended.  When the analyze call yields the fallback payload, the     *)
(* payload is stored and the stage advances to review_and_answer; there    *)
(* the page shows the dead-end error and offers start over only.           *)
(***************************************************************************)
C2_FallbackReachesDeadEnd ==
    /\ (AnalyzeCalled /\ IsFallbackPayload(response_json)) =>
            /\ analysis_stage = "review_and_answer"
            /\ api_response = response_json
            /\ rerun
    /\ (analysis_stage = "review_and_answer" /\ IsFallbackPayload(api_response)) =>
            \/ rerun /\ page = BlankPage
            \/ page.widgets = {"start_over"} /\ ErrDeadEnd \in page.errors
\* the review page of a fallback payload has been rendered
C2_Witness ==
    /\ analysis_stage = "review_and_answer"
    /\ IsFallbackPayload(api_response)
    /\ ~rerun
    /\ page.widgets = {"start_over"}

(***************************************************************************)
(* C3.  When the model client reports a failure to the analyze action      *)
(* (it returns None: no credential, request error, response without the    *)
(* text field), the stage stays analyzing, the stored image and payload    *)
(* are unchanged and Analyze can be pressed again.                         *)
(***************************************************************************)
C3_ClientFailureKeepsState ==
    [][(last'.op = "analyze" /\ response_json' = PyNone) =>
        /\ analysis_stage' = "analyzing"
        /\ analysis_stage = "analyzing"
        /\ UNCHANGED << uploaded_image_data, api_response >>
        /\ ~rerun'
        /\ "analyze" \in page'.widgets]_vars
\* a request failed in stage analyzing and the error is on the page
C3_Witness ==
    /\ AnalyzeCalled
    /\ response_json = PyNone
    /\ posted
    /\ ErrApi \in page.errors
    /\ analysis_stage = "analyzing"

(***************************************************************************)
(* C4.  The stage becomes results only if the payload of the stage-2 call  *)
(* holds a breakdown that is a list.                                       *)
(***************************************************************************)
C4_ResultsOnlyWithBreakdownList ==
    [][(Stage0 # "results" /\ Stage0' = "results") => ValidBreakdown(response_json')]_vars

(***************************************************************************)
(* C5.  When the stage-2 call returns without a valid breakdown, the stage *)
(* falls back to review_and_answer and the answers, the stage-1 payload    *)
(* and the image are what they were before the call.                       *)
(***************************************************************************)
C5_FallbackPreservesSession ==
    [][(FinalCalled' /\ ~page'.exception /\ ~ValidBreakdown(response_json')) =>
        /\ analysis_stage' = "review_and_answer"
        /\ UNCHANGED << user_answers, api_response, uploaded_image_data >>]_vars

(***************************************************************************)
(* C6.  In review_and_answer with no estimations and no question that has  *)
(* a non-empty id, the page offers start over and nothing that leads to    *)
(* calculating_final.                                                      *)
(***************************************************************************)
C6_DeadEndOffersOnlyReset ==
    (/\ analysis_stage = "review_and_answer"
     /\ estimations_of(api_response) = << >>
     /\ SelectSeq(questions_of(api_response), HasNonEmptyId) = << >>) =>
        page.widgets \subseteq {"start_over"}

(***************************************************************************)
(* C7.  Only questions with a non-empty id are displayed in                *)
(* review_and_answer, and only they have a line in the stage-2 prompt.     *)
(***************************************************************************)
C7_OnlyQuestionsWithId ==
    /\ \A i \in 1..Len(page.questions) : HasNonEmptyId(page.questions[i])
    /\ final_prompt.t = "final" =>
            Len(final_prompt.answers)
                = Len(SelectSeq(questions_of(api_response), HasNonEmptyId))

(***************************************************************************)
(* C8.  After start over, from whatever stage, the session reads as a      *)
(* fresh one: stage upload, no image, empty payload, no answers, no final  *)
(* breakdown; and after the rerun it requests the session is the fresh     *)
(* session.                                                                *)
(***************************************************************************)
C8_ResetClearsSession ==
    /\ last.op = "start_over" =>
            /\ Stage0 = "upload"
            /\ Image0 = PyNone
            /\ Response0 = EmptyDict
            /\ user_answers = Absent
            /\ final_breakdown = Absent
            /\ rerun
    /\ (last.op = "rerun" /\ last.from = NoKey) => FreshSession
\* start over was pressed in results, with answers and a breakdown stored
C8_Witness ==
    /\ last.op = "start_over"
    /\ last.from = "results"
    /\ Stage0 = "upload"

(***************************************************************************)
(* C9.  In every stage the rendered page offers the start-over action.     *)
(***************************************************************************)
C9_ResetEverywhere ==
    \A stage \in Stages : (Stage0 = stage /\ ~rerun) => "start_over" \in page.widgets

(***************************************************************************)
(* C10.  The extraction returns for every raw text (no exception leaves    *)
(* it), and for a raw text without any brace it returns the fallback       *)
(* payload holding the raw text itself.                                    *)
(***************************************************************************)
NoBrace(text) == \A i \in 1..Len(text) : text[i] # LB /\ text[i] # RB
EmbedsAt(text, i, j) ==
    /\ i <= j
    /\ text[i] = LB
    /\ text[j] = RB
    /\ NoBrace(SubSeq(text, 1, i - 1))
    /\ NoBrace(SubSeq(text, j + 1, Len(text)))
    /\ JsonLoads(SubSeq(text, i, j)).ok
\* the raw text is a valid JSON object surrounded by prose or fencing
EmbedsObject(text) == \E i, j \in 1..Len(text) : EmbedsAt(text, i, j)
EmbeddedObject(text) ==
    LET ij == CHOOSE ij \in (1..Len(text)) \X (1..Len(text)) : EmbedsAt(text, ij[1], ij[2])
    IN  JsonLoads(SubSeq(text, ij[1], ij[2])).val
\* a separator stands before the first brace
SeparatorBeforeObject(text) == Find(text, SEP) # -1 /\ Find(text, SEP) < Find(text, LB)
\* the last run extracted a payload from a raw text
Extracted == last.op = "extract" \/ (posted /\ response_json # PyNone /\ ~page.exception)

SegmentBefore(text) ==
    IF Find(text, SEP) = -1 THEN text ELSE SubSeq(text, 1, Find(text, SEP))
TextAfter(text) == SubSeq(text, Find(text, SEP) + 2, Len(text))
\* the summary the separator rule gives
SeparatorSummary(text) ==
    IF Find(text, SEP) = -1 THEN NoSummary ELSE JText(Strip(TextAfter(text)))
\* the payload without its summary
WithoutSummary(v) == JObj([k \in DOMAIN v.m \ {"summary_text"} |-> v.m[k]])

WellFormedLine(line) ==
    /\ IsDict(line)
    /\ \A f \in {"calories", "protein_grams", "carbs_grams", "fat_grams"} :
            HasKey(line, f) => line.m[f].t = "num"
\* the field of a well-formed line, zero when the line has no such field
LineValue(line, f) == IF HasKey(line, f) THEN line.m[f].n ELSE 0
\* the sum of the field over the first n lines
RECURSIVE FieldTotal(_, _, _)
FieldTotal(lines, f, n) ==
    IF n = 0 THEN 0 ELSE FieldTotal(lines, f, n - 1) + LineValue(lines[n], f)
TotalsOf(lines) ==
    Totals(FieldTotal(lines, "calories", Len(lines)),
           FieldTotal(lines, "protein_grams", Len(lines)),
           FieldTotal(lines, "carbs_grams", Len(lines)),
           FieldTotal(lines, "fat_grams", Len(lines)))
\* the results page of a stored breakdown list has been rendered
ResultsRendered == Stage0 = "results" /\ ~rerun /\ ValidBreakdown(final_breakdown)
BreakdownLines == final_breakdown.m["breakdown"].items

(***************************************************************************)
(* C13.  Whenever the results page of a breakdown list of well-formed      *)
(* lines is rendered, each of the four totals it shows is the sum of that  *)
(* field over all lines of the list, a missing field counting zero; the    *)
(* totals depend on the list alone, so rendering again with the list       *)
(* unchanged shows the same totals.                                        *)
(***************************************************************************)
C13_TotalsAreSums ==
    (ResultsRendered /\ \A i \in 1..Len(BreakdownLines) : WellFormedLine(BreakdownLines[i])) =>
        /\ ~page.exception
        /\ page.totals = TotalsOf(BreakdownLines)
\* the results of the rice text were rendered again: 200 + 30 calories, 1 g fat
C13_Witness ==
    /\ ResultsRendered
    /\ last.from = "results"
    /\ Len(BreakdownLines) = 2
    /\ page.totals = Totals(230, 0, 0, 1)

(***************************************************************************)
(* C14.  When at most one line of the breakdown list is malformed (not an  *)
(* object, or a nutrition field that holds a string or null), the results  *)
(* page is still rendered and its totals are the sums over the well-formed *)
(* lines.                                                                  *)
(***************************************************************************)
C14_MalformedLineTolerated ==
    (/\ ResultsRendered
     /\ Len(BreakdownLines) - Len(SelectSeq(BreakdownLines, WellFormedLine)) <= 1) =>
        /\ ~page.exception
        /\ page.totals = TotalsOf(SelectSeq(BreakdownLines, WellFormedLine))

(***************************************************************************)
(* C15.  No request is posted to the model endpoint while the credential   *)
(* is empty: a model call made with an empty credential posts nothing,     *)
(* returns None and shows the not-configured error.                        *)
(***************************************************************************)
C15_NoRequestWithoutCredential ==
    /\ posted => GEMINI_API_KEY # ""
    /\ ((AnalyzeCalled \/ FinalCalled) /\ GEMINI_API_KEY = "") =>
            /\ ~posted
            /\ response_json = PyNone
            /\ ErrNoKey \in page.errors
\* the stage-2 call was made with an empty credential
C15_Witness ==
    /\ FinalCalled
    /\ GEMINI_API_KEY = ""
    /\ ~posted
    /\ ErrNoKey \in page.errors

(***************************************************************************)
(* C16.  When the response body does not hold the generated text at the    *)
(* path of line 362 (a key is missing, a list is empty, a level has        *)
(* another type), the model call returns None with an error on the page,   *)
(* no exception leaves the run, and the stage does not advance.            *)
(***************************************************************************)
C16_DeviantBodyIsCaught ==
    (posted /\ full_response_json \in DeviantBodies) =>
        /\ ~page.exception
        /\ response_json = PyNone
        /\ ErrShape \in page.errors
        /\ << last.from, Stage0 >> \notin ForwardEdges

(***************************************************************************)
(* C17.  For every displayed question with options, the stored answer has  *)
(* the form "option: free text" exactly when the selected option is the    *)
(* one the question designates under follow_up_on; for any other selected  *)
(* option the stored answer is the selected option alone.                  *)
(***************************************************************************)
C17_FollowUpOnDesignatedOption ==
    user_answers # Absent =>
        \A i \in 1..Len(valid_questions(Response0)) :
            LET q == valid_questions(Response0)[i]
                answered == q.m["id"] \in DOMAIN user_answers.m
                a == user_answers.m[q.m["id"]]
            IN  (HasOptions(q) /\ answered) =>
                    IF a.t = "fstring"
                    THEN HasKey(q, "follow_up_on") /\ a.parts[1] = q.m["follow_up_on"]
                    ELSE ~(HasKey(q, "follow_up_on") /\ a = q.m["follow_up_on"])

(***************************************************************************)
(* C18.  On every entry to calculating_final the answers map has exactly   *)
(* one key per valid question (a question with a non-empty id) of the      *)
(* stored stage-1 payload, and no other key; when the payload has an       *)
(* estimation and no valid question, the entry is by the                   *)
(* no-further-questions button and the answers map is empty.               *)
(***************************************************************************)
C18_OneAnswerPerValidQuestion ==
    (Stage0 = "calculating_final" /\ last.op \in {"submit", "calculate_now"}) =>
        LET valid == SelectSeq(questions_of(Response0), HasNonEmptyId)
        IN  /\ user_answers # Absent
            /\ DOMAIN user_answers.m = {valid[i].m["id"] : i \in 1..Len(valid)}
            /\ Cardinality(DOMAIN user_answers.m) = Len(valid)
            /\ (estimations_of(Response0) # << >> /\ valid = << >>) =>
                    /\ last.op = "calculate_now"
                    /\ user_answers = Answers(<< >>)

(***************************************************************************)
(* C19.  When the brace slice of the segment before the first separator    *)
(* does not parse, the extraction returns the object parsed from the brace *)
(* slice of the whole raw text if that parses; it returns the fallback     *)
(* payload exactly when neither slice parses.                              *)
(***************************************************************************)
C19_RetryOnWholeText ==
    Extracted =>
        LET segment == JsonLoads(BraceSlice(SegmentBefore(response_text)))
            whole == JsonLoads(BraceSlice(response_text))
        IN  /\ (~segment.ok /\ whole.ok) => response_json = whole.val
            /\ (response_json = JObj("text" :> JText(response_text)))
                    <=> (~segment.ok /\ ~whole.ok)
\* a separator stood before the object: the object came from the whole text
C19_Witness ==
    /\ Extracted
    /\ response_text = TextSeparatorFirst
    /\ ~JsonLoads(BraceSlice(SegmentBefore(response_text))).ok
    /\ DOMAIN response_json.m = {"breakdown"}
    /\ Len(response_json.m["breakdown"].items) = 1

====
